---- MODULE Spec2Model ----
(***************************************************************************)
(* A model of streamlit_app.py ("Calm Journal"): the tag normaliser, the   *)
(* CSV entry store, the audio transcriber and the form controller (main).  *)
(*                                                                         *)
(* Text is modelled as a sequence of one-character strings, so that        *)
(* split / strip / startswith and the csv writer and reader are computed   *)
(* character by character as the Python code computes them.                *)
(***************************************************************************)
EXTENDS Integers, Sequences, FiniteSets, TLC

VARIABLES
    csv_file,               \* contents of CSV_FILE on disk, or NoFile
    temp_files,             \* paths of the files that exist in the temp directory
    session_state,          \* st.session_state: a mapping from the keys set so far
    ui,                     \* what the last run of main() did and showed
    entries,                \* what the last call of load_entries returned
    last,                   \* inputs of the last Save and the rows the store held before it
    tags_str,               \* argument of normalize_tags
    tags_pc,                \* "input", "once", "twice": how often it was applied
    tags_once,              \* normalize_tags(tags_str)
    tags_twice,             \* normalize_tags(normalize_tags(tags_str))
    tr_call,                \* argument and environment of the last transcribe_audio call
    tr_result,              \* how that call ended
    saved                   \* rows handed to save_entry, in call order

vars == <<csv_file, temp_files, session_state, ui, entries,
          last, tags_str, tags_pc, tags_once, tags_twice, tr_call, tr_result, saved>>

----------------------------------------------------------------------------
(* Bounds of the model                                                      *)

MaxTagLen == 4          \* longest argument of normalize_tags that is enumerated
MaxRows == 2            \* most entries the form saves in one behaviour
MaxStoreRows == 2       \* most save_entry calls in one behaviour of the store
MaxTempFiles == 1       \* most leftover temp files before transcription is no longer tried

----------------------------------------------------------------------------
(* Python str helpers                                                       *)

EmDash == "U+2014"                              \* the one non-ASCII character of the source
Whitespace == {" ", "\t", "\n", "\r", "\f"}     \* what str.strip() removes

\* an optional value is a set with no element (None) or one
None == {}
Some(x) == {x}
The(opt) == CHOOSE x \in opt : TRUE

Strings(alphabet, n) == UNION {[1..k -> alphabet] : k \in 0..n}

\* s.startswith(c) for a one-character prefix
startswith(s, c) == s # <<>> /\ s[1] = c

RECURSIVE lstrip(_)
lstrip(s) == IF s # <<>> /\ s[1] \in Whitespace THEN lstrip(Tail(s)) ELSE s

RECURSIVE rstrip(_)
rstrip(s) ==
    IF s # <<>> /\ s[Len(s)] \in Whitespace THEN rstrip(SubSeq(s, 1, Len(s) - 1)) ELSE s

strip(s) == rstrip(lstrip(s))

\* s.split(sep) for a one-character separator: always at least one token
RECURSIVE split(_, _)
split(s, sep) ==
    IF \A i \in 1..Len(s) : s[i] # sep
    THEN <<s>>
    ELSE LET i == CHOOSE k \in 1..Len(s) : s[k] = sep /\ \A j \in 1..(k - 1) : s[j] # sep
         IN  <<SubSeq(s, 1, i - 1)>> \o split(SubSeq(s, i + 1, Len(s)), sep)

\* sep.join(parts)
RECURSIVE join(_, _)
join(sep, parts) ==
    IF parts = <<>> THEN <<>>
    ELSE IF Len(parts) = 1 THEN parts[1]
    ELSE parts[1] \o sep \o join(sep, Tail(parts))

\* [f(x) for x in xs if keep(x)] with f = strip and keep = non-empty after strip
RECURSIVE stripped_nonempty(_)
stripped_nonempty(ts) ==
    IF ts = <<>> THEN <<>>
    ELSE IF strip(ts[1]) # <<>> THEN <<strip(ts[1])>> \o stripped_nonempty(Tail(ts))
    ELSE stripped_nonempty(Tail(ts))

----------------------------------------------------------------------------
(* normalize_tags                                                           *)

\* the loop body of lines 85-88
prefix_tag(p) == IF ~startswith(p, "#") THEN <<"#">> \o p ELSE p

\* a slip: the marker is added whether or not the token already has it
normalize_tags_always_prefix(tags_str_) ==
    IF tags_str_ = <<>> THEN <<>>
    ELSE LET parts == stripped_nonempty(split(tags_str_, ","))
         IN  join(<<",", " ">>, [i \in 1..Len(parts) |-> <<"#">> \o parts[i]])

normalize_tags(tags_str_) ==
    IF tags_str_ = <<>> THEN <<>>
    ELSE LET parts == stripped_nonempty(split(tags_str_, ","))
         IN  join(<<",", " ">>, [i \in 1..Len(parts) |-> prefix_tag(parts[i])])

----------------------------------------------------------------------------
(* The csv module, default dialect: delimiter ',', quotechar '"',           *)
(* doublequote, QUOTE_MINIMAL, lineterminator "\r\n", not strict            *)

Delimiter == ","
QuoteChar == "\""
LineTerminator == <<"\r", "\n">>
EOL == "EOL"                    \* the end-of-line mark the reader feeds after each line
CsvError == "csv.Error"

\* csv.writer: a field is quoted when it holds the delimiter, the quote
\* character or a character of the line terminator
needs_quotes(field) ==
    \E i \in 1..Len(field) : field[i] \in {Delimiter, QuoteChar, "\r", "\n"}

RECURSIVE double_quotes(_)
double_quotes(field) ==
    IF field = <<>> THEN <<>>
    ELSE IF field[1] = QuoteChar
         THEN <<QuoteChar, QuoteChar>> \o double_quotes(Tail(field))
         ELSE <<field[1]>> \o double_quotes(Tail(field))

write_field(field) ==
    IF needs_quotes(field)
    THEN <<QuoteChar>> \o double_quotes(field) \o <<QuoteChar>>
    ELSE field

\* writer.writerow(fields): a lone empty field is written as ""
writerow(fields) ==
    IF Len(fields) = 1 /\ fields[1] = <<>>
    THEN <<QuoteChar, QuoteChar>> \o LineTerminator
    ELSE join(<<Delimiter>>, [i \in 1..Len(fields) |-> write_field(fields[i])])
         \o LineTerminator

\* a file opened with newline='' yields lines ended by "\n", "\r" or "\r\n",
\* untranslated; the last line may be unterminated
line_ends_at(text, i) ==
    \/ i = Len(text)
    \/ text[i] = "\n"
    \/ text[i] = "\r" /\ text[i + 1] # "\n"

parse_save_field(p) == [p EXCEPT !.fields = Append(@, p.field), !.field = <<>>]
parse_add_char(p, c) == [p EXCEPT !.field = Append(@, c)]
goto(p, state) == [p EXCEPT !.state = state]
is_newline(c) == c \in {"\n", "\r"}
after_line(c) == IF c = EOL THEN "START_RECORD" ELSE "EAT_CRNL"

\* case START_FIELD of parse_process_char (START_RECORD falls through to it)
parse_start_field(p, c) ==
    IF is_newline(c) \/ c = EOL THEN goto(parse_save_field(p), after_line(c))
    ELSE IF c = QuoteChar THEN goto(p, "IN_QUOTED_FIELD")
    ELSE IF c = Delimiter THEN goto(parse_save_field(p), "START_FIELD")
    ELSE goto(parse_add_char(p, c), "IN_FIELD")

\* _csv.c parse_process_char: one step of the reader's state machine
parse_process_char(p, c) ==
    CASE p.state = "START_RECORD" ->
            IF c = EOL THEN p
            ELSE IF is_newline(c) THEN goto(p, "EAT_CRNL")
            ELSE parse_start_field(p, c)
      [] p.state = "START_FIELD" -> parse_start_field(p, c)
      [] p.state = "IN_FIELD" ->
            IF is_newline(c) \/ c = EOL THEN goto(parse_save_field(p), after_line(c))
            ELSE IF c = Delimiter THEN goto(parse_save_field(p), "START_FIELD")
            ELSE parse_add_char(p, c)
      [] p.state = "IN_QUOTED_FIELD" ->
            IF c = EOL THEN p
            ELSE IF c = QuoteChar THEN goto(p, "QUOTE_IN_QUOTED_FIELD")
            ELSE parse_add_char(p, c)
      [] p.state = "QUOTE_IN_QUOTED_FIELD" ->
            IF c = QuoteChar THEN goto(parse_add_char(p, c), "IN_QUOTED_FIELD")
            ELSE IF c = Delimiter THEN goto(parse_save_field(p), "START_FIELD")
            ELSE IF is_newline(c) \/ c = EOL
                 THEN goto(parse_save_field(p), after_line(c))
            ELSE goto(parse_add_char(p, c), "IN_FIELD")
      [] p.state = "EAT_CRNL" ->
            IF is_newline(c) THEN p
            ELSE IF c = EOL THEN goto(p, "START_RECORD")
            ELSE goto(p, "ERROR")
      [] OTHER -> p

\* Reader_iternext at the character text[i]: the character is processed, then,
\* when it ends a line, the EOL mark; a row is complete when the state after
\* a line's EOL is START_RECORD.  A csv.Error ends the reading.
reader_step(text, i, p) ==
    LET q == parse_process_char(p, text[i])
        r == IF line_ends_at(text, i) THEN parse_process_char(q, EOL) ELSE q
    IN  IF line_ends_at(text, i) /\ r.state = "START_RECORD"
        THEN [r EXCEPT !.rows = Append(@, r.fields), !.fields = <<>>]
        ELSE r

\* the characters lo..hi of the text, read in order (halved so that the
\* evaluation nests only logarithmically deep)
RECURSIVE reader_fold(_, _, _, _)
reader_fold(text, lo, hi, p) ==
    IF lo > hi THEN p
    ELSE IF lo = hi THEN reader_step(text, lo, p)
    ELSE LET mid == (lo + hi) \div 2
             left == reader_fold(text, lo, mid, p)
         IN  IF left.state = "ERROR" THEN left ELSE reader_fold(text, mid + 1, hi, left)

\* list(csv.reader(file)): at the end of the input a field in progress still
\* makes a row
csv_reader(text) ==
    LET p == reader_fold(text, 1, Len(text),
                         [state |-> "START_RECORD", field |-> <<>>,
                          fields |-> <<>>, rows |-> <<>>])
    IN  IF p.state = "ERROR" THEN <<CsvError>>
        ELSE IF p.field # <<>> \/ p.state = "IN_QUOTED_FIELD"
        THEN Append(p.rows, Append(p.fields, p.field))
        ELSE p.rows

----------------------------------------------------------------------------
(* The entry store                                                          *)

NoFile == None                  \* os.path.exists(CSV_FILE) is false; else Some(contents)
Header == << <<"T", "i", "m", "e", "s", "t", "a", "m", "p">>, <<"M", "o", "o", "d">>,
             <<"T", "a", "g", "s">>, <<"N", "o", "t", "e", "s">> >>

Digits == <<"0", "1", "2", "3", "4", "5", "6", "7", "8", "9">>
Digit(n) == Digits[n + 1]
Pad2(n) == <<Digit((n \div 10) % 10), Digit(n % 10)>>
Pad4(n) == Pad2(n \div 100) \o Pad2(n % 100)

\* str(n) for n >= 0
RECURSIVE str(_)
str(n) == IF n < 10 THEN <<Digit(n)>> ELSE str(n \div 10) \o <<Digit(n % 10)>>

\* now.strftime("%Y-%m-%d %H:%M:%S")
strftime(now) ==
    Pad4(now.year) \o <<"-">> \o Pad2(now.month) \o <<"-">> \o Pad2(now.day) \o <<" ">>
    \o Pad2(now.hour) \o <<":">> \o Pad2(now.minute) \o <<":">> \o Pad2(now.second)

initialize_csv(file) == IF file = NoFile THEN Some(writerow(Header)) ELSE file

\* a slip: the file is opened with mode 'w' and so truncated before the row is written
save_entry_truncating(file, now, mood, tags, notes) ==
    Some(writerow(<<strftime(now), mood, tags, notes>>))

save_entry(file, now, mood, tags, notes) ==
    Some(The(initialize_csv(file)) \o writerow(<<strftime(now), mood, tags, notes>>))

load_entries(file) ==
    IF file = NoFile THEN <<>>
    ELSE LET reader == csv_reader(The(file))
         IN  IF reader = <<>> THEN <<>> ELSE Tail(reader)

----------------------------------------------------------------------------
(* transcribe_audio                                                         *)

SR_NOT_AVAILABLE ==
    <<"[", "s", "p", "e", "e", "c", "h", "_", "r", "e", "c", "o", "g", "n", "i", "t", "i",
      "o", "n", " ", "n", "o", "t", " ", "a", "v", "a", "i", "l", "a", "b", "l", "e", " ",
      EmDash, " ", "i", "n", "s", "t", "a", "l", "l", " ", "i", "t", " ", "i", "n", " ", "y",
      "o", "u", "r", " ", "e", "n", "v", "i", "r", "o", "n", "m", "e", "n", "t", "]">>
CONVERT_FAILED ==
    <<"[", "F", "a", "i", "l", "e", "d", " ", "t", "o", " ", "c", "o", "n", "v", "e", "r",
      "t", " ", "a", "u", "d", "i", "o", " ", EmDash, " ", "e", "n", "s", "u", "r", "e", " ",
      "p", "y", "d", "u", "b", " ", "a", "n", "d", " ", "f", "f", "m", "p", "e", "g", " ",
      "a", "r", "e", " ", "i", "n", "s", "t", "a", "l", "l", "e", "d", "]">>
COULD_NOT_UNDERSTAND ==
    <<"[", "C", "o", "u", "l", "d", " ", "n", "o", "t", " ", "u", "n", "d", "e", "r", "s",
      "t", "a", "n", "d", " ", "a", "u", "d", "i", "o", "]">>
SERVICE_UNAVAILABLE ==
    <<"[", "S", "p", "e", "e", "c", "h", " ", "r", "e", "c", "o", "g", "n", "i", "t", "i",
      "o", "n", " ", "s", "e", "r", "v", "i", "c", "e", " ", "u", "n", "a", "v", "a", "i",
      "l", "a", "b", "l", "e", " ", EmDash, " ", "n", "e", "t", "w", "o", "r", "k", " ", "r",
      "e", "q", "u", "i", "r", "e", "d", "]">>
TRANSCRIPTION_ERROR(e) ==
    <<"[", "T", "r", "a", "n", "s", "c", "r", "i", "p", "t", "i", "o", "n", " ", "e", "r",
      "r", "o", "r", ":", " ">> \o e \o <<"]">>

DotWav == <<".", "w", "a", "v">>
TempPrefix == <<"/", "t", "m", "p", "/", "t", "m", "p">>

UpperCase == <<"A", "B", "C", "D", "E", "F", "G", "H", "I", "J", "K", "L", "M",
               "N", "O", "P", "Q", "R", "S", "T", "U", "V", "W", "X", "Y", "Z">>
LowerCase == <<"a", "b", "c", "d", "e", "f", "g", "h", "i", "j", "k", "l", "m",
               "n", "o", "p", "q", "r", "s", "t", "u", "v", "w", "x", "y", "z">>

\* str.lower() on the letters of file names
lower(s) ==
    [i \in 1..Len(s) |->
        IF \E k \in 1..Len(UpperCase) : UpperCase[k] = s[i]
        THEN LowerCase[CHOOSE k \in 1..Len(UpperCase) : UpperCase[k] = s[i]]
        ELSE s[i]]

\* os.path.splitext(name)[1] of a base name: from the last dot, unless that
\* dot is among the leading dots
splitext_ext(name) ==
    LET dots == {i \in 1..Len(name) : name[i] = "."}
        lastdot == CHOOSE i \in dots : \A j \in dots : j <= i
    IN  IF dots = {} \/ (\A j \in 1..lastdot : name[j] = ".") THEN <<>>
        ELSE SubSeq(name, lastdot, Len(name))

\* hasattr(uploaded_file, 'name'): an UploadedFile has a name, bytes have none
has_name(uploaded_file) == "name" \in DOMAIN uploaded_file

\* tempfile.NamedTemporaryFile picks a name no existing file has
temp_name(files, suffix) ==
    LET k == CHOOSE n \in 0..Cardinality(files) :
                 /\ (TempPrefix \o str(n) \o suffix) \notin files
                 /\ \A m \in 0..(n - 1) : (TempPrefix \o str(m) \o suffix) \in files
    IN  TempPrefix \o str(k) \o suffix

\* os.remove inside try/except: a failed removal leaves the file and is swallowed
remove(files, path, env) == IF env.remove = "ok" THEN files \ {path} ELSE files

\* how a call ended. stage: the step of the function it ended in
Returned(value, files, made, stage) ==
    [raised |-> FALSE, value |-> value, files |-> files, made |-> made, stage |-> stage]
Raised(exception, files, made, stage) ==
    [raised |-> TRUE, value |-> exception, files |-> files, made |-> made, stage |-> stage]

\* a slip: the handlers of UnknownValueError and RequestError are exchanged
recognition_value_swapped(recognition) ==
    CASE recognition.kind = "text" -> recognition.text
      [] recognition.kind = "UnknownValueError" -> SERVICE_UNAVAILABLE
      [] recognition.kind = "RequestError" -> COULD_NOT_UNDERSTAND
      [] OTHER -> TRANSCRIPTION_ERROR(recognition.text)

\* the try block of lines 57-67: what the recognition step makes the call return
recognition_value(recognition) ==
    CASE recognition.kind = "text" -> recognition.text
      [] recognition.kind = "UnknownValueError" -> COULD_NOT_UNDERSTAND
      [] recognition.kind = "RequestError" -> SERVICE_UNAVAILABLE
      [] OTHER -> TRANSCRIPTION_ERROR(recognition.text)

\* transcribe_audio(uploaded_file) in the environment env, with `files` the
\* temp files that exist when it is called.  files: those that exist when it
\* has ended; made: those the call created.
transcribe_audio(uploaded_file, env, files) ==
    IF env.sr_import # "ok" THEN Returned(SR_NOT_AVAILABLE, files, {}, "import")
    ELSE IF has_name(uploaded_file) /\ env.read # "ok"
    THEN Raised("OSError", files, {}, "read")
    ELSE
    LET suffix == IF has_name(uploaded_file)
                  THEN lower(splitext_ext(uploaded_file.name))
                  ELSE DotWav
        temp_in_path == temp_name(files, suffix)
        wav_path == IF suffix # DotWav THEN temp_in_path \o DotWav ELSE temp_in_path
        written == {temp_in_path, wav_path}
    IN  IF env.temp = "create_raise" THEN Raised("OSError", files, {}, "temp")
        ELSE IF env.temp = "write_raise"
        THEN Raised("OSError", files \cup {temp_in_path}, {temp_in_path}, "temp")
        ELSE IF suffix # DotWav /\ env.convert # "ok"
        THEN Returned(CONVERT_FAILED, files \cup {temp_in_path}, {temp_in_path}, "convert")
        ELSE IF env.recognizer # "ok"
        THEN Raised("Exception", files \cup written, written, "recognizer")
        ELSE Returned(recognition_value(env.recognition),
                      IF wav_path # temp_in_path
                      THEN remove(remove(files \cup written, temp_in_path, env), wav_path, env)
                      ELSE remove(files \cup written, temp_in_path, env),
                      written, "recognition")

\* what the external steps of one call do: each step works or fails
Transcripts == {<<>>, <<"b">>, <<"[", "b">>}
Messages == {<<>>, <<"x">>}
Recognitions ==
    {[kind |-> "text", text |-> t] : t \in Transcripts}
    \cup {[kind |-> k, text |-> <<>>] : k \in {"UnknownValueError", "RequestError"}}
    \cup {[kind |-> "Exception", text |-> m] : m \in Messages}
AllWorks ==
    [sr_import |-> "ok", read |-> "ok", temp |-> "ok", convert |-> "ok",
     recognizer |-> "ok", remove |-> "ok", recognition |-> [kind |-> "text", text |-> <<"b">>]]
Envs ==
    {[AllWorks EXCEPT !.recognition = r] : r \in Recognitions}
    \cup {[AllWorks EXCEPT !.sr_import = "fail"], [AllWorks EXCEPT !.read = "raise"],
          [AllWorks EXCEPT !.temp = "create_raise"], [AllWorks EXCEPT !.temp = "write_raise"],
          [AllWorks EXCEPT !.convert = "fail"], [AllWorks EXCEPT !.recognizer = "raise"],
          [AllWorks EXCEPT !.remove = "fail"]}

\* what can be handed to transcribe_audio
Bytes == {<<>>, <<82, 73>>}
UploadNames == {<<"n", ".", "w", "a", "v">>, <<"N", ".", "W", "A", "V">>,
                <<"n", ".", "m", "p", "3">>}
UploadedFiles == {[name |-> n, data |-> <<82, 73>>] : n \in UploadNames}
RecordedAudio == {[data |-> b] : b \in Bytes \ {<<>>}}

----------------------------------------------------------------------------
(* main(): the form controller.  Each action is one run of the script,      *)
(* started by one interaction of the user.                                   *)

MinMood == 1
MaxMood == 5

COMMON_STRESSORS ==
  <<
     <<"W", "o", "r", "k", " ", "S", "t", "r", "e", "s", "s">>,
     <<"R", "e", "l", "a", "t", "i", "o", "n", "s", "h", "i", "p", " ", "I", "s", "s", "u",
        "e", "s">>,
     <<"F", "i", "n", "a", "n", "c", "i", "a", "l", " ", "W", "o", "r", "r", "y">>,
     <<"H", "e", "a", "l", "t", "h", " ", "C", "o", "n", "c", "e", "r", "n", "s">>,
     <<"S", "l", "e", "e", "p", " ", "D", "e", "p", "r", "i", "v", "a", "t", "i", "o", "n">>,
     <<"S", "o", "c", "i", "a", "l", " ", "A", "n", "x", "i", "e", "t", "y">>,
     <<"D", "e", "a", "d", "l", "i", "n", "e", " ", "P", "r", "e", "s", "s", "u", "r", "e">>,
     <<"F", "a", "m", "i", "l", "y", " ", "C", "o", "n", "f", "l", "i", "c", "t">>,
     <<"A", "c", "a", "d", "e", "m", "i", "c", " ", "S", "t", "r", "e", "s", "s">>,
     <<"B", "u", "r", "n", "o", "u", "t">>,
     <<"G", "r", "i", "e", "f", "/", "L", "o", "s", "s">>,
     <<"U", "n", "c", "e", "r", "t", "a", "i", "n", "t", "y">>
  >>

VOICE_NOTE ==
    <<"\n", "\n", "[", "V", "o", "i", "c", "e", " ", "n", "o", "t", "e", "]", ":", " ">>
TRANSCRIPTION_ISSUE ==
    <<"A", "u", "d", "i", "o", " ", "t", "r", "a", "n", "s", "c", "r", "i", "p", "t", "i",
      "o", "n", " ", "i", "s", "s", "u", "e", ":", " ">>
PLEASE_ADD_NOTES ==
    <<"P", "l", "e", "a", "s", "e", " ", "a", "d", "d", " ", "s", "o", "m", "e", " ", "n",
      "o", "t", "e", "s", " ", "(", "t", "y", "p", "e", "d", " ", "o", "r", " ", "v", "o", "i",
      "c", "e", "/", "a", "u", "d", "i", "o", ")", " ", "b", "e", "f", "o", "r", "e", " ", "s",
      "a", "v", "i", "n", "g", ".">>

\* lines 143-147: a key is set only when the session does not hold it yet
init_session_state(ss) ==
    LET a == IF "voice_recorded" \notin DOMAIN ss
             THEN ss @@ ("voice_recorded" :> FALSE) ELSE ss
    IN  IF "recorded_audio_bytes" \notin DOMAIN a
        THEN a @@ ("recorded_audio_bytes" :> None) ELSE a

\* a slip: the two flags are left as they are when an entry has been saved
reset_voice_forgotten(ss) == ss

\* lines 199-200 and 270-271
reset_voice(ss) ==
    [ss EXCEPT !["voice_recorded"] = FALSE, !["recorded_audio_bytes"] = None]

\* lines 222-225
combine_tags(selected_stressors, custom_tags) ==
    LET all_tags == join(<<",", " ">>, selected_stressors)
    IN  IF custom_tags # <<>>
        THEN IF all_tags # <<>> THEN all_tags \o <<",", " ">> \o custom_tags
             ELSE custom_tags
        ELSE all_tags

\* lines 241-248: what is transcribed, if anything
audio_source(uploaded_audio, ss) ==
    IF uploaded_audio # None THEN uploaded_audio
    ELSE IF ss.voice_recorded /\ ss.recorded_audio_bytes # None
            /\ The(ss.recorded_audio_bytes).data # <<>>
    THEN ss.recorded_audio_bytes
    ELSE None

\* a slip: the transcription is appended whether or not it is an error message
combine_notes_with_errors(notes, transcribed_text) ==
    IF transcribed_text # <<>>
    THEN IF notes # <<>> THEN notes \o VOICE_NOTE \o transcribed_text
         ELSE transcribed_text
    ELSE notes

\* lines 250-259: final_notes
combine_notes(notes, transcribed_text) ==
    IF transcribed_text # <<>> /\ startswith(transcribed_text, "[") THEN notes
    ELSE IF transcribed_text # <<>>
    THEN IF notes # <<>> THEN notes \o VOICE_NOTE \o transcribed_text
         ELSE transcribed_text
    ELSE notes

\* lines 252-254: the warning about a failed transcription
transcription_warnings(transcribed_text) ==
    IF transcribed_text # <<>> /\ startswith(transcribed_text, "[")
    THEN << TRANSCRIPTION_ISSUE \o transcribed_text >>
    ELSE <<>>

\* a slip: only notes that were never entered (None) are turned away
notes_missing_when_none(final_notes) == FALSE

\* line 261: not final_notes
notes_missing(final_notes) == final_notes = <<>>

Shown(run, outcome, warnings, success) ==
    [run |-> run, outcome |-> outcome, warnings |-> warnings, success |-> success]

\* what the user can enter in the form
FormFields ==
    {[mood |-> 4, selected_stressors |-> <<COMMON_STRESSORS[1]>>,
      custom_tags |-> <<"e", "x", "e", "r", "c", "i", "s", "e">>]}
NotesSample == {<<>>, <<"a">>}
FormUploads ==
    {None} \cup {Some([name |-> n, data |-> <<82, 73>>]) :
                    n \in {<<"n", ".", "w", "a", "v">>, <<"n", ".", "m", "p", "3">>}}
\* what the external steps do while the form is submitted
FormEnvs ==
    {[AllWorks EXCEPT !.recognition = r] :
        r \in {[kind |-> "text", text |-> t] : t \in Transcripts}
              \cup {[kind |-> "UnknownValueError", text |-> <<>>],
                    [kind |-> "Exception", text |-> <<"x">>]}}
    \cup {[AllWorks EXCEPT !.sr_import = "fail"], [AllWorks EXCEPT !.temp = "write_raise"],
          [AllWorks EXCEPT !.convert = "fail"]}
FormClock == {[year |-> 2024, month |-> 1, day |-> 5, hour |-> 9, minute |-> 3, second |-> 7]}

NoRun == Shown("none", "none", <<>>, FALSE)

\* the first run of a session, or a rerun nothing was clicked in
PageLoad ==
    /\ session_state' = init_session_state(session_state)
    /\ ui' = Shown("load", IF DOMAIN session_state = {} THEN "session_start" ELSE "rerun",
                   <<>>, FALSE)
    /\ UNCHANGED <<csv_file, temp_files, entries, last, tags_str, tags_pc, tags_once,
                   tags_twice, tr_call, tr_result, saved>>

\* a slip: the recorder the button was written for runs and stores what it heard
RecordNoteStoresRecording ==
    /\ ui.run # "none"
    /\ session_state' = [init_session_state(session_state) EXCEPT
                            !["voice_recorded"] = TRUE,
                            !["recorded_audio_bytes"] = Some([data |-> <<82, 73>>])]
    /\ ui' = Shown("record", "recorded", <<>>, FALSE)
    /\ UNCHANGED <<csv_file, temp_files, entries, last, tags_str, tags_pc, tags_once,
                   tags_twice, tr_call, tr_result, saved>>

\* 'Record Note' clicked: line 179 names RTCConfiguration, which nothing
\* imports or defines, so the run ends there with a NameError
RecordNote ==
    /\ ui.run # "none"
    /\ session_state' = init_session_state(session_state)
    /\ ui' = Shown("record", "NameError", <<>>, FALSE)
    /\ UNCHANGED <<csv_file, temp_files, entries, last, tags_str, tags_pc, tags_once,
                   tags_twice, tr_call, tr_result, saved>>

\* 'Clear voice recording' clicked: the button exists only while voice_recorded
\* holds; st.rerun() then runs the script again from the top
ClearVoiceRecording ==
    /\ ui.run # "none"
    /\ session_state.voice_recorded
    /\ session_state' = init_session_state(reset_voice(session_state))
    /\ ui' = Shown("clear", "rerun", <<>>, FALSE)
    /\ UNCHANGED <<csv_file, temp_files, entries, last, tags_str, tags_pc, tags_once,
                   tags_twice, tr_call, tr_result, saved>>

\* lines 238-272 for one submission: the file, the temp files, the session and
\* what is shown when the run has ended
submit(file, files, ss, fields, notes, uploaded_audio, env, now) ==
    LET tags == normalize_tags(combine_tags(fields.selected_stressors, fields.custom_tags))
        source == audio_source(uploaded_audio, ss)
        call == transcribe_audio(The(source), env, files)
        transcribed_text == IF source # None THEN call.value ELSE <<>>
        final_notes == combine_notes(notes, transcribed_text)
        warnings == transcription_warnings(transcribed_text)
        transcription ==
            IF source # None
            THEN Some([env |-> env, raised |-> call.raised, value |-> call.value,
                       stage |-> call.stage])
            ELSE None
        files_after == IF source # None THEN call.files ELSE files
    IN  IF source # None /\ call.raised
        THEN [file |-> file, files |-> files_after, ss |-> ss,
              transcription |-> transcription,
              ui |-> Shown("save", call.value, <<>>, FALSE)]
        ELSE IF notes_missing(final_notes)
        THEN [file |-> file, files |-> files_after, ss |-> ss,
              transcription |-> transcription,
              ui |-> Shown("save", "rejected", warnings \o <<PLEASE_ADD_NOTES>>, FALSE)]
        ELSE [file |-> save_entry(file, now, str(fields.mood), tags, final_notes),
              files |-> files_after, ss |-> reset_voice(ss),
              transcription |-> transcription,
              ui |-> Shown("save", "saved", warnings, TRUE)]

\* 'Save' clicked.  The sidebar (lines 276-285) reads the file and changes nothing.
Save ==
    /\ ui.run # "none"
    /\ \E before \in {load_entries(csv_file)} :
           /\ Len(before) < MaxRows
           /\ \E fields \in FormFields, notes \in NotesSample,
                 uploaded_audio \in FormUploads, env \in FormEnvs, now \in FormClock :
                LET ss == init_session_state(session_state)
                    run == submit(csv_file, temp_files, ss, fields, notes,
                                  uploaded_audio, env, now)
                IN  /\ audio_source(uploaded_audio, ss) = None => env = AllWorks
                    /\ Cardinality(run.files) <= MaxTempFiles
                    /\ csv_file' = run.file
                    /\ temp_files' = run.files
                    /\ session_state' = run.ss
                    /\ ui' = run.ui
                    /\ last' = Some([notes |-> notes, uploaded |-> uploaded_audio # None,
                                     transcription |-> run.transcription,
                                     before |-> before])
    /\ UNCHANGED <<entries, tags_str, tags_pc, tags_once, tags_twice, tr_call, tr_result,
                   saved>>

----------------------------------------------------------------------------
(* The program: one session of the form over an empty working directory     *)

Init ==
    /\ csv_file = NoFile
    /\ temp_files = {}
    /\ session_state = <<>>
    /\ ui = NoRun
    /\ entries = <<>>
    /\ last = None
    /\ tags_str = <<>>
    /\ tags_pc = "input"
    /\ tags_once = <<>>
    /\ tags_twice = <<>>
    /\ tr_call = None
    /\ tr_result = None
    /\ saved = <<>>

\* no run ever shows the 'Clear voice recording' button (see C10_NeverPending)
Next == PageLoad \/ RecordNote \/ Save

Spec == Init /\ [][Next]_vars

----------------------------------------------------------------------------
(* The controller over every content the two session keys can have: the     *)
(* states lines 196-201 and 246-248 are written for                          *)

SessionStates ==
    {<<>>} \cup {[voice_recorded |-> v, recorded_audio_bytes |-> b] :
                    v \in BOOLEAN, b \in {None} \cup {Some([data |-> d]) : d \in Bytes}}

InitPending ==
    /\ csv_file = NoFile
    /\ temp_files = {}
    /\ session_state \in SessionStates
    /\ ui = NoRun
    /\ entries = <<>>
    /\ last = None
    /\ tags_str = <<>>
    /\ tags_pc = "input"
    /\ tags_once = <<>>
    /\ tags_twice = <<>>
    /\ tr_call = None
    /\ tr_result = None
    /\ saved = <<>>

NextPending == PageLoad \/ RecordNote \/ ClearVoiceRecording \/ Save

SpecPending == InitPending /\ [][NextPending]_vars

----------------------------------------------------------------------------
(* The entry store on its own: save_entry and load_entries                  *)

StoreClock ==
    {[year |-> 2024, month |-> 1, day |-> 5, hour |-> 9, minute |-> 3, second |-> 7],
     [year |-> 2025, month |-> 12, day |-> 31, hour |-> 23, minute |-> 59, second |-> 59]}
StoreMoods == {str(MinMood), str(MaxMood)}
StoreTags == {<<>>, <<"#", "a", ",", " ", "#", "b">>, <<"\"", "\"">>}
StoreNotes ==
    {<<>>, <<"a">>, <<"a", ",", "b">>, <<"\"">>, <<"a", "\n", "b">>, <<"\r">>,
     <<"\r", "\n">>, <<"\"", "a", "\"", ",", " ", "\n">>, <<" ">>}
\* the arguments of one save_entry call and the time at which it is made
StoreCalls ==
    {[now |-> n, mood |-> m, tags |-> t, notes |-> x] :
        n \in StoreClock, m \in StoreMoods, t \in StoreTags, x \in StoreNotes}
StoreSample ==
    {c \in StoreCalls :
        \/ c.tags = <<>> /\ c.mood = str(MinMood) /\ c.now.year = 2024
        \/ c.tags # <<>> /\ c.mood = str(MaxMood) /\ c.now.year = 2025
                         /\ c.notes \in {<<>>, <<"a">>, <<"\"">>}}

StoreSaveEntry ==
    /\ Len(saved) < MaxStoreRows
    /\ \E c \in StoreSample :
        /\ csv_file' = save_entry(csv_file, c.now, c.mood, c.tags, c.notes)
        /\ saved' = Append(saved, <<strftime(c.now), c.mood, c.tags, c.notes>>)
    /\ ui' = Shown("save_entry", "returned", <<>>, FALSE)
    /\ UNCHANGED <<temp_files, session_state, entries, last, tags_str, tags_pc, tags_once,
                   tags_twice, tr_call, tr_result>>

StoreLoadEntries ==
    /\ entries' = load_entries(csv_file)
    /\ ui' = Shown("load_entries", "returned", <<>>, FALSE)
    /\ UNCHANGED <<csv_file, temp_files, session_state, last, tags_str, tags_pc,
                   tags_once, tags_twice, tr_call, tr_result, saved>>

NextStore == StoreSaveEntry \/ StoreLoadEntries

SpecStore == Init /\ [][NextStore]_vars

----------------------------------------------------------------------------
(* normalize_tags on its own, applied once and then to its own result       *)

TagAlphabet == {"a", " ", ",", "#"}

InitTags ==
    /\ csv_file = NoFile
    /\ temp_files = {}
    /\ session_state = <<>>
    /\ ui = NoRun
    /\ entries = <<>>
    /\ last = None
    /\ tags_str \in Strings(TagAlphabet, MaxTagLen)
    /\ tags_pc = "input"
    /\ tags_once = <<>>
    /\ tags_twice = <<>>
    /\ tr_call = None
    /\ tr_result = None
    /\ saved = <<>>

NormalizeOnce ==
    /\ tags_pc = "input"
    /\ tags_once' = normalize_tags(tags_str)
    /\ tags_pc' = "once"
    /\ UNCHANGED <<csv_file, temp_files, session_state, ui, entries, last, tags_str,
                   tags_twice, tr_call, tr_result, saved>>

NormalizeAgain ==
    /\ tags_pc = "once"
    /\ tags_twice' = normalize_tags(tags_once)
    /\ tags_pc' = "twice"
    /\ UNCHANGED <<csv_file, temp_files, session_state, ui, entries, last, tags_str,
                   tags_once, tr_call, tr_result, saved>>

NextTags == NormalizeOnce \/ NormalizeAgain

SpecTags == InitTags /\ [][NextTags]_vars

----------------------------------------------------------------------------
(* transcribe_audio on its own, called again and again                      *)

TranscribeAudio ==
    /\ \E uploaded_file \in UploadedFiles \cup RecordedAudio, env \in Envs :
        \E call \in {transcribe_audio(uploaded_file, env, temp_files)} :
            /\ Cardinality(call.files) <= MaxTempFiles
            /\ temp_files' = call.files
            /\ tr_call' = Some([uploaded_file |-> uploaded_file, env |-> env])
            /\ tr_result' = Some([raised |-> call.raised, value |-> call.value,
                                  made |-> call.made, stage |-> call.stage])
    /\ UNCHANGED <<csv_file, session_state, ui, entries, last, tags_str, tags_pc,
                   tags_once, tags_twice, saved>>

NextTranscribe == TranscribeAudio

SpecTranscribe == Init /\ [][NextTranscribe]_vars

----------------------------------------------------------------------------
(* Properties                                                                *)

\* the last transcribe_audio call of SpecTranscribe
TrCall == The(tr_call)
TrResult == The(tr_result)
\* the suffix the call worked with
TrSuffix ==
    IF has_name(TrCall.uploaded_file) THEN lower(splitext_ext(TrCall.uploaded_file.name))
    ELSE DotWav

\* the last Save of the form and its transcription
LastSave == The(last)
LastTranscription == The(LastSave.transcription)
SaveRan == ui.run = "save" /\ last # None
Transcribed == SaveRan /\ LastSave.transcription # None
\* the speech service was reached and answered with a transcript
ServiceSucceeded ==
    /\ Transcribed
    /\ LastTranscription.stage = "recognition"
    /\ LastTranscription.env.recognition.kind = "text"
\* transcribe_audio returned, and what it returned reports a failure
SentinelReturned ==
    /\ Transcribed
    /\ ~LastTranscription.raised
    /\ ~ServiceSucceeded
\* the store holds the rows it held before the last Save and one more, whose
\* notes field is `notes`
OneRowAdded(notes) ==
    LET rows == load_entries(csv_file)
        before == LastSave.before
    IN  /\ Len(rows) = Len(before) + 1
        /\ SubSeq(rows, 1, Len(before)) = before
        /\ Len(rows[Len(rows)]) = 4
        /\ rows[Len(rows)][4] = notes
Warned(text) == \E i \in 1..Len(ui.warnings) : ui.warnings[i] = text

\* C1: whenever a transcribe_audio call that created a temp file has ended, and
\* removal did not fail, none of the files it created exists any more
C1_TempFilesRemoved ==
    (tr_result # None /\ TrResult.made # {} /\ TrCall.env.remove = "ok")
        => TrResult.made \cap temp_files = {}

\* C2: every transcribe_audio call returns (it never raises), and whenever a
\* step of it failed the returned text begins with '['
C2_NeverRaises ==
    tr_result # None =>
        /\ ~TrResult.raised
        /\ ~(TrResult.stage = "recognition" /\ TrCall.env.recognition.kind = "text")
               => startswith(TrResult.value, "[")

\* C3: a Save with typed notes whose transcription returned a sentinel error
\* persists exactly one new row, whose notes are the typed notes, and warns
C3_TypedNotesKept ==
    (SentinelReturned /\ LastSave.notes # <<>>) =>
        /\ ui.outcome = "saved"
        /\ OneRowAdded(LastSave.notes)
        /\ Warned(TRANSCRIPTION_ISSUE \o LastTranscription.value)

C3_Witness ==
    /\ SentinelReturned
    /\ LastSave.notes = <<"a">>
    /\ LastTranscription.value = COULD_NOT_UNDERSTAND
    /\ Len(LastSave.before) = 1
    /\ Len(load_entries(csv_file)) = 2

\* C4: a Save whose final notes are empty (no typed notes, and no audio or a
\* transcription that returned a sentinel error or nothing) is rejected with
\* the validation warning and leaves the store as it was
C4_EmptyNotesRejected ==
    (/\ SaveRan
     /\ LastSave.notes = <<>>
     /\ \/ LastSave.transcription = None
        \/ SentinelReturned
        \/ ServiceSucceeded /\ LastTranscription.value = <<>>) =>
        /\ ui.outcome = "rejected"
        /\ Warned(PLEASE_ADD_NOTES)
        /\ ~ui.success
        /\ load_entries(csv_file) = LastSave.before

C4_Witness ==
    /\ SentinelReturned
    /\ LastSave.notes = <<>>
    /\ LastTranscription.value = CONVERT_FAILED
    /\ ui.outcome = "rejected"
    /\ Len(LastSave.before) = 1
    /\ Len(load_entries(csv_file)) = 1

\* C5: a Save whose speech service call succeeded with transcript t persists
\* exactly one new row, with notes "<typed>\n\n[Voice note]: t", or t alone
\* when nothing was typed, whatever the text t is
C5_TranscriptAppended ==
    ServiceSucceeded =>
        OneRowAdded(IF LastSave.notes # <<>>
                    THEN LastSave.notes \o VOICE_NOTE \o LastTranscription.env.recognition.text
                    ELSE LastTranscription.env.recognition.text)

\* C6: from a missing file on, load_entries returns exactly the rows saved, in
\* call order, and a call of load_entries made now returns them
C6_AppendOnly ==
    /\ load_entries(csv_file) = saved
    /\ csv_file = NoFile => saved = <<>>
    /\ ui.run = "load_entries" => entries = saved

C6_Witness ==
    /\ ui.run = "load_entries"
    /\ Len(saved) = 2
    /\ entries = saved
    /\ saved[1][4] = <<"\"", "a", "\"", ",", " ", "\n">>
    /\ saved[2][3] = <<"\"", "\"">>

\* C7: right after the first run of a session, after a Save that persisted an
\* entry and after 'Clear voice recording', voice_recorded is false and
\* recorded_audio_bytes is None
C7_FlagsReset ==
    (\/ ui.run = "load" /\ ui.outcome = "session_start"
     \/ ui.run = "save" /\ ui.outcome = "saved"
     \/ ui.run = "clear") =>
        session_state = [voice_recorded |-> FALSE, recorded_audio_bytes |-> None]

C7_Witness ==
    /\ ui.run = "save"
    /\ ui.outcome = "saved"
    /\ Transcribed
    /\ ~LastSave.uploaded
    /\ session_state = [voice_recorded |-> FALSE, recorded_audio_bytes |-> None]

SPEC_CONVERT_FAILED ==
    <<"[", "F", "a", "i", "l", "e", "d", " ", "t", "o", " ", "c", "o", "n", "v", "e", "r",
      "t", " ", "a", "u", "d", "i", "o", " ", EmDash, " ", "e", "n", "s", "u", "r", "e", " ",
      "d", "e", "p", "e", "n", "d", "e", "n", "c", "i", "e", "s", " ", "a", "r", "e", " ",
      "i", "n", "s", "t", "a", "l", "l", "e", "d", "]">>

\* what C8 says of a call that ended in the step `stage`, with `convert_failed`
\* the text for a failed conversion
SentinelsAre(convert_failed) ==
    tr_result # None =>
        /\ TrResult.stage = "import" => TrResult.value = SR_NOT_AVAILABLE
        /\ TrResult.stage = "convert" => TrResult.value = convert_failed
        /\ (TrResult.stage = "recognition"
            /\ TrCall.env.recognition.kind = "UnknownValueError")
               => TrResult.value = COULD_NOT_UNDERSTAND
        /\ (TrResult.stage = "recognition" /\ TrCall.env.recognition.kind = "RequestError")
               => TrResult.value = SERVICE_UNAVAILABLE
        /\ (TrResult.stage = "recognition" /\ TrCall.env.recognition.kind = "Exception")
               => TrResult.value =
                      TRANSCRIPTION_ERROR(TrCall.env.recognition.text)
        /\ TrResult.stage \in {"import", "convert", "recognition"} => ~TrResult.raised
        /\ TrCall.env.sr_import # "ok" => TrResult.stage = "import"
        /\ (TrCall.env = [AllWorks EXCEPT !.convert = "fail"] /\ TrSuffix # DotWav)
               => TrResult.stage = "convert"
        /\ TrCall.env = [AllWorks EXCEPT !.recognition = TrCall.env.recognition]
               => TrResult.stage = "recognition"

\* C8 as the specification words it: a failed conversion returns
\* "[Failed to convert audio - ensure dependencies are installed]"
C8_SpecSentinels == SentinelsAre(SPEC_CONVERT_FAILED)

\* C8: each failure is returned as the sentinel of its handler: a missing
\* recognition library, a failed conversion ("... ensure pydub and ffmpeg are
\* installed]"), UnknownValueError, RequestError, any other exception
C8_CodeSentinels == SentinelsAre(CONVERT_FAILED)

C8_Witness ==
    /\ tr_result # None
    /\ TrResult.stage = "recognition"
    /\ TrCall.env.recognition.kind = "RequestError"
    /\ TrResult.value = SERVICE_UNAVAILABLE
    /\ TrSuffix # DotWav

\* the tokens of a normalised tag string: its comma-free pieces, each after
\* the first led by the one blank of the ", " that joins them
TagTokensWellFormed(out) ==
    out = <<>> \/
    LET pieces == split(out, ",")
    IN  \A i \in 1..Len(pieces) :
            LET token == IF i = 1 THEN pieces[i] ELSE Tail(pieces[i])
            IN  /\ i > 1 => startswith(pieces[i], " ")
                /\ token # <<>>
                /\ token[1] = "#"
                /\ token[Len(token)] \notin Whitespace

\* C9: every token of normalize_tags(x) is non-empty, trimmed and starts with
\* '#', the tokens are joined with ", ", normalize_tags("") = "", and
\* normalising the result again changes nothing
C9_NormalizeIdempotent ==
    /\ tags_pc # "input" =>
        /\ TagTokensWellFormed(tags_once)
        /\ tags_str = <<>> => tags_once = <<>>
    /\ tags_pc = "twice" => tags_twice = tags_once

C9_Witness ==
    /\ tags_pc = "twice"
    /\ tags_str = <<"a", ",", ",", "#">>
    /\ tags_twice = <<"#", "a", ",", " ", "#">>

====
